---- MODULE Spec2Model ----
(***************************************************************************)
(* A model of datacube/drivers/s3/storage/s3aio/s3io.py (class S3IO): the  *)
(* low level byte IO over a remote object store (enable_s3 = True) or its  *)
(* on-disk emulation (enable_s3 = False), the multipart uploaders and the  *)
(* parallel range downloader.                                              *)
(*                                                                         *)
(* and of datacube/analytics/base_job_monitor.py (class BaseJobMonitor),   *)
(* the monitor that waits for the subjobs of a decomposed job.             *)
(*                                                                         *)
(* The specifications share the variables:                                 *)
(*   Spec      whole-object and ranged IO, existence checks, list, delete  *)
(*   SpecUp    put_bytes_mpu, put_bytes_mpu_mp, put_bytes_mpu_mp_shm       *)
(*   SpecDown  get_byte_range_mp                                           *)
(*   SpecShm   get_byte_range_mp with delete_created_arrays, here and in   *)
(*             another process of the host                                 *)
(*   SpecMon   BaseJobMonitor.wait_for_workers                             *)
(*   SpecMonFair  the same, the monitor running and the clock advancing    *)
(***************************************************************************)
EXTENDS Integers, Sequences, FiniteSets, TLC

VARIABLES
    enable_s3,    \* S3IO.enable_s3, fixed by __init__
    s3_objects,   \* remote store: [bucket, key] -> stored bytes
    s3_uploads,   \* remote store: the multipart uploads, indexed by UploadId
    fs_dirs,      \* local disk: the directories (absolute paths)
    fs_files,     \* local disk: the regular files, path -> bytes
    shm,          \* /dev/shm: the named shared arrays, name -> length; the
                  \* memory of an array is with the invocation that mapped it
                  \* (call.shared_array), a deleted name leaves it mapped
    call,         \* the S3IO method invocation in progress (its locals)
    last_put,     \* history: per location, the data of the last put_bytes
                  \* that succeeded with no put or delete on it since
    platform,     \* sys.platform of the host
    store,        \* the job store: job id -> status, as get_job_status sees it
    now,          \* time.monotonic(), in half seconds
    monitor       \* the BaseJobMonitor and its wait_for_workers invocation

\* the variables of S3IO and of what it works on
s3io_vars == <<enable_s3, s3_objects, s3_uploads, fs_dirs, fs_files, shm, call, last_put>>

\* the variables of the host and of the job monitor
host_vars == <<platform, store, now, monitor>>

vars == <<enable_s3, s3_objects, s3_uploads, fs_dirs, fs_files, shm, call, last_put,
          platform, store, now, monitor>>

-----------------------------------------------------------------------------
(* Bounds of the model *)

\* longest payload handed to an uploader / longest stored object of a download
MaxLen == 4
\* largest block_size argument
MaxBlock == 3
\* multipart uploads initiated in one behaviour
MaxUploads == 1
\* shared arrays alive in /dev/shm at one time
MaxArrays == 1

-----------------------------------------------------------------------------
(* Values *)

\* Python's None
NoneVal == [kind |-> "None"]

\* a bytes object / uint8 array holding the byte sequence b
Bytes(b) == [kind |-> "bytes", val |-> b]

\* the payload of n bytes used by the uploaders: byte i has value i
Payload(n) == [i \in 1..n |-> i]

Min(a, b) == IF a < b THEN a ELSE b

Max(a, b) == IF a > b THEN a ELSE b

\* Python's seq[start:end] for 0 <= start, 0 <= end: both clipped to len(seq)
PySlice(seq, start, end) ==
    LET lo == Min(start, Len(seq))
        hi == Min(end, Len(seq))
    IN  IF lo >= hi THEN <<>> ELSE SubSeq(seq, lo + 1, hi)

\* int(np.ceil(nbytes / float(block_size)))
NumBlocksFloor(nbytes, block_size) == nbytes \div block_size

NumBlocks(nbytes, block_size) ==
    IF nbytes % block_size = 0 THEN nbytes \div block_size
                               ELSE (nbytes \div block_size) + 1

RECURSIVE Concat(_)
\* the concatenation of a sequence of byte sequences
Concat(ss) == IF ss = <<>> THEN <<>> ELSE Head(ss) \o Concat(Tail(ss))

-----------------------------------------------------------------------------
(* The multipart protocol of the remote store, as the uploaders use it *)

TheBucket == "b1"

UploadKey == <<"k">>

\* the ETag of an uploaded part: a digest of its body
ETag(body) == <<"md5", body>>

\* s3.meta.client.create_multipart_upload: a fresh UploadId, an open upload;
\* client tells the uploads of this S3IO from those of the store's other
\* clients
CreateMultipartUpload(key) ==
    Append(s3_uploads, [key |-> key, status |-> "open", parts |-> <<>>,
                        client |-> "S3IO"])

\* the uploads this S3IO initiated
OwnUploads == {id \in DOMAIN s3_uploads : s3_uploads[id].client = "S3IO"}

\* s3.meta.client.upload_part: the store keeps the body under the part number
UploadPart(uploads, id, part_number, body) ==
    [uploads EXCEPT ![id].parts = [n \in (DOMAIN @) \cup {part_number} |->
                                      IF n = part_number THEN body ELSE @[n]]]

\* the parts list is one the store accepts: not empty, ascending part numbers,
\* every part uploaded with the ETag given
PartsAccepted(up, parts) ==
    /\ Len(parts) > 0
    /\ \A i \in 1..Len(parts) - 1 : parts[i].PartNumber < parts[i + 1].PartNumber
    /\ \A i \in 1..Len(parts) :
          /\ parts[i].PartNumber \in DOMAIN up.parts
          /\ parts[i].ETag = ETag(up.parts[parts[i].PartNumber])

\* the object a completed upload becomes: the listed parts, concatenated
Assembled(up, parts) ==
    Concat([i \in 1..Len(parts) |-> up.parts[parts[i].PartNumber]])

\* s3.meta.client.complete_multipart_upload, accepted: the upload is completed
\* and its parts are released
CompleteMultipartUpload(uploads, id) ==
    [uploads EXCEPT ![id].status = "completed", ![id].parts = <<>>]

-----------------------------------------------------------------------------
(* The local disk of the emulation. A path is the sequence of its names     *)
(* below "/"; <<>> is "/".                                                  *)

\* self.file_path, the root directory of the emulated buckets
FilePath == <<"home", "S3IO">>

Buckets == {"b1", "b2"}

\* the bucket the callers write to; b2 is a bucket nothing was ever put into
WriteBuckets == {"b1"}

\* the keys the callers use: 'k', 'd' and 'd/k'; on disk 'd' is a file or,
\* once 'd/k' is put, a directory
Keys == {<<"k">>, <<"d">>, <<"d", "k">>}

\* Path(self.file_path) / s3_bucket / s3_key
ObjectPath(bucket, key) == FilePath \o <<bucket>> \o key

BucketPath(bucket) == FilePath \o <<bucket>>

\* path.parent
Parent(p) == IF p = <<>> THEN <<>> ELSE SubSeq(p, 1, Len(p) - 1)

\* a path and the directories above it, "/" included
Prefixes(p) == {SubSeq(p, 1, i) : i \in 0..Len(p)}

\* list(parent.iterdir())
Children(dirs, files, p) ==
    {q \in dirs \cup DOMAIN files : q # <<>> /\ Parent(q) = p}

\* put_bytes on disk: mkdir(parents=True, exist_ok=True) of the parent, then
\* open('wb') and write. ok is FALSE when a filesystem error is raised.
LocalPutBytes(dirs, files, bucket, key, data) ==
    LET filepath == ObjectPath(bucket, key)
        parents  == Prefixes(Parent(filepath))
    IN  IF parents \cap DOMAIN files # {}
        THEN [ok |-> FALSE, error |-> "NotADirectoryError", dirs |-> dirs, files |-> files]
        ELSE IF filepath \in dirs
        THEN [ok |-> FALSE, error |-> "IsADirectoryError",
              dirs |-> dirs \cup parents, files |-> files]
        ELSE [ok |-> TRUE, error |-> "none", dirs |-> dirs \cup parents,
              files |-> [q \in DOMAIN files \cup {filepath} |->
                            IF q = filepath THEN data ELSE files[q]]]

-----------------------------------------------------------------------------
(* The invocation in progress *)

IdleCall == [op |-> "none", pc |-> "idle", outcome |-> "none", result |-> NoneVal]

\* S3IO does one thing at a time: a method is entered when none is running
CallFree == call.pc = "idle"

\* the test as it would be if the methods went to the remote store whatever
\* the switch
S3EnabledIgnored == TRUE

\* `if self.enable_s3`, the test by which every method picks the remote
\* store or the disk
S3Enabled == enable_s3

\* no BaseJobMonitor has been made
NoMonitor == [pc |-> "none"]

\* the host of the specifications of S3IO: Linux, no job monitor
S3IOHost ==
    /\ platform = "linux"
    /\ store = <<>>
    /\ now = 0
    /\ monitor = NoMonitor

\* The finished invocation's result or exception has gone to the caller.
ReturnToCaller ==
    /\ call.pc = "done"
    /\ call' = IdleCall
    /\ UNCHANGED <<host_vars, enable_s3, s3_objects, s3_uploads, fs_dirs, fs_files, shm, last_put>>

\* the invocation returned `result` / raised `error`
Returned(c, result) == [c EXCEPT !.pc = "done", !.outcome = "returned", !.result = result]

Raised(c, error) == [c EXCEPT !.pc = "done", !.outcome = "raised", !.result = error]

UploaderOps == {"put_bytes_mpu", "put_bytes_mpu_mp", "put_bytes_mpu_mp_shm"}

ParallelOps == {"put_bytes_mpu_mp", "put_bytes_mpu_mp_shm"}

\* the failures a call to the remote store may end in
RemoteFaults == {"ReadTimeoutError", "ClientError"}

\* an exception of class `class` carrying `cause`
Error(class, cause) == [kind |-> "error", class |-> class, cause |-> cause]

-----------------------------------------------------------------------------
(* put_bytes_mpu, put_bytes_mpu_mp, put_bytes_mpu_mp_shm *)

\* put_bytes_mpu / put_bytes_mpu_mp: the chunk of block_number, its end
\* clipped to nbytes
DataChunk(data, block_size, block_number) ==
    LET nbytes == Len(data)
        start  == block_number * block_size
        end0   == (block_number + 1) * block_size
        end    == IF end0 > nbytes THEN nbytes ELSE end0
    IN  [start |-> start, body |-> PySlice(data, start, end)]

\* work_put_shm: the chunk of block_number, sliced from the shared array; the
\* end is not clipped, the slice is
DataChunkShm(shared_array, block_size, block_number) ==
    LET start == block_number * block_size
        end   == (block_number + 1) * block_size
    IN  [start |-> start, body |-> PySlice(shared_array, start, end)]

\* the part a chunk task reports for block_number
\* the part as it would be with the block's own number, counted from 0
PartOfBlockNumber(block_number, body) ==
    [PartNumber |-> block_number, ETag |-> ETag(body)]

PartOf(block_number, body) ==
    [PartNumber |-> block_number + 1, ETag |-> ETag(body)]

\* pool.map: the results in the order of the blocks handed in, whatever the
\* order the tasks finished in
MapResultsInArrivalOrder(results, arrival) ==
    [i \in 1..Len(arrival) |-> results[arrival[i]]]

MapResults(results, arrival) ==
    [i \in 1..Len(arrival) |-> results[i - 1]]

\* s3_resource(new_session): a resource of a new session, or of boto3's
\* default session
S3Resource(new_session) == IF new_session THEN "new" ELSE "default"

\* the session of an upload_part: the caller's resource in put_bytes_mpu,
\* boto3.resource('s3') in work_put, boto3.session.Session().resource('s3')
\* in work_put_shm
PartSession(op, new_session) ==
    CASE op = "put_bytes_mpu" -> S3Resource(new_session)
      [] op = "put_bytes_mpu_mp" -> "default"
      [] op = "put_bytes_mpu_mp_shm" -> "new"

\* the session of complete_multipart_upload: boto3.resource('s3') in
\* put_bytes_mpu_mp, the caller's resource in the other two
CompleteSession(op, new_session) ==
    IF op = "put_bytes_mpu_mp" THEN "default" ELSE S3Resource(new_session)

\* a request to the store as the invocation issued it; worker tells the
\* requests of the pool's processes from those of the calling process. The
\* invocation's locals hold the set of the requests it has issued so far.
Request(api, session, worker, id, part_number, ok) ==
    [api |-> api, session |-> session, worker |-> worker, UploadId |-> id,
     PartNumber |-> part_number, ok |-> ok]

\* UploadId=mpu['UploadId']: the id create_multipart_upload answered to this
\* invocation
UploadIdOfKey(c) ==
    CHOOSE id \in DOMAIN s3_uploads :
        /\ s3_uploads[id].key = UploadKey
        /\ s3_uploads[id].status = "open"
        /\ \A other \in DOMAIN s3_uploads :
              (s3_uploads[other].key = UploadKey /\ s3_uploads[other].status = "open")
                 => id <= other

UploadIdArg(c) == c.mpu

\* pool.map keeps the exception of the first task that failed and raises it
\* when every task has finished
FirstFailure(kept, error) == IF kept = NoneVal THEN error ELSE kept

\* the locals of an uploader invocation after create_multipart_upload
UploaderCall(op, data, block_size, new_session, id) ==
    LET nbytes     == Len(data)
        num_blocks == NumBlocks(nbytes, block_size)
    IN  [op |-> op, pc |-> "parts", outcome |-> "none", result |-> NoneVal,
         data |-> data, block_size |-> block_size, new_session |-> new_session,
         mpu |-> id,
         requests |-> {Request("create_multipart_upload", S3Resource(new_session),
                               FALSE, id, 0, TRUE)},
         num_blocks |-> num_blocks,
         \* put_bytes_mpu_mp builds every chunk before the map
         chunks |-> IF op = "put_bytes_mpu_mp"
                    THEN [b \in 0..num_blocks - 1 |-> DataChunk(data, block_size, b)]
                    ELSE <<>>,
         task |-> [b \in 0..num_blocks - 1 |-> "pending"],
         arrival |-> <<>>, results |-> <<>>, parts |-> <<>>]

\* Entry of the three uploaders. On disk: one put_bytes, whose None is the
\* result. On the remote store: create_multipart_upload, which may fail.
PutBytesMpuCall(op, nbytes, block_size, new_session) ==
    /\ CallFree
    /\ LET data == Payload(nbytes)
           base == [op |-> op, pc |-> "parts", outcome |-> "none", result |-> NoneVal,
                    data |-> data, block_size |-> block_size,
                    new_session |-> new_session, mpu |-> 0, requests |-> {}]
       IN  IF ~S3Enabled
           THEN LET w == LocalPutBytes(fs_dirs, fs_files, TheBucket, UploadKey, data)
                IN  /\ fs_dirs' = w.dirs
                    /\ fs_files' = w.files
                    /\ call' = IF w.ok THEN Returned(base, NoneVal)
                                       ELSE Raised(base, Error(w.error, "none"))
                    /\ UNCHANGED <<s3_uploads>>
           ELSE /\ Cardinality(OwnUploads) < MaxUploads
                /\ \/ /\ s3_uploads' = CreateMultipartUpload(UploadKey)
                      /\ call' = UploaderCall(op, data, block_size, new_session,
                                              Len(s3_uploads) + 1)
                   \/ /\ \E f \in RemoteFaults :
                            call' = Raised([base EXCEPT !.requests =
                                               {Request("create_multipart_upload",
                                                        S3Resource(new_session),
                                                        FALSE, 0, 0, FALSE)}],
                                           Error(f, "create_multipart_upload"))
                      /\ UNCHANGED s3_uploads
                /\ UNCHANGED <<fs_dirs, fs_files>>
    /\ UNCHANGED <<host_vars, enable_s3, s3_objects, shm, last_put>>

\* One upload_part: an iteration of put_bytes_mpu's loop (in block order), or
\* one work_put / work_put_shm task of the pool (in any order).
UploadPartStep(b) ==
    /\ call.pc = "parts"
    /\ call.op \in UploaderOps
    /\ b \in DOMAIN call.task
    /\ call.task[b] = "pending"
    /\ call.op = "put_bytes_mpu" =>
          /\ \A j \in 0..b - 1 : call.task[j] = "done"
    /\ LET chunk == CASE call.op = "put_bytes_mpu" ->
                            DataChunk(call.data, call.block_size, b)
                      [] call.op = "put_bytes_mpu_mp" -> call.chunks[b]
                      [] call.op = "put_bytes_mpu_mp_shm" ->
                            DataChunkShm(call.data, call.block_size, b)
           part  == PartOf(b, chunk.body)
           built == [j \in DOMAIN call.chunks \cup {b} |->
                        IF j = b THEN chunk ELSE call.chunks[j]]
           id    == UploadIdArg(call)
           req(ok) == Request("upload_part", PartSession(call.op, call.new_session),
                              call.op \in ParallelOps, id, part.PartNumber, ok)
       IN  \/ /\ s3_uploads' = UploadPart(s3_uploads, id, part.PartNumber, chunk.body)
              /\ call' = [call EXCEPT
                             !.chunks = built,
                             !.requests = @ \cup {req(TRUE)},
                             !.task[b] = "done",
                             !.arrival = Append(@, b),
                             !.results = [j \in DOMAIN @ \cup {b} |->
                                             IF j = b THEN part ELSE @[j]],
                             !.parts = IF call.op = "put_bytes_mpu"
                                       THEN Append(@, part) ELSE @]
           \/ /\ UNCHANGED s3_uploads
              /\ \E f \in RemoteFaults :
                    call' = IF call.op = "put_bytes_mpu"
                            THEN Raised([call EXCEPT !.chunks = built, !.task[b] = "failed",
                                                     !.requests = @ \cup {req(FALSE)}],
                                        Error(f, "upload_part"))
                            ELSE [call EXCEPT !.chunks = built, !.task[b] = "failed",
                                              !.requests = @ \cup {req(FALSE)},
                                              !.result = FirstFailure(@, Error(f, "upload_part"))]
    /\ UNCHANGED <<host_vars, enable_s3, s3_objects, fs_dirs, fs_files, shm, last_put>>

\* pool.map raises, as it would if the uploader kept the parts that did
\* return and completed the upload with them
PoolMapToleratesFailure ==
    /\ call.pc = "parts"
    /\ call.op \in ParallelOps
    /\ \A b \in DOMAIN call.task : call.task[b] # "pending"
    /\ \E b \in DOMAIN call.task : call.task[b] = "failed"
    /\ call' = Returned([call EXCEPT !.requests =
                            @ \cup {Request("complete_multipart_upload",
                                            CompleteSession(call.op, call.new_session),
                                            FALSE, UploadIdArg(call), 0, FALSE)}],
                        NoneVal)
    /\ UNCHANGED <<host_vars, enable_s3, s3_objects, s3_uploads, fs_dirs, fs_files, shm, last_put>>

\* pool.map raises: every task has finished and one of them failed. The
\* failure goes to the caller; nothing is called on the store.
PoolMapRaises ==
    /\ call.pc = "parts"
    /\ call.op \in ParallelOps
    /\ \A b \in DOMAIN call.task : call.task[b] # "pending"
    /\ \E b \in DOMAIN call.task : call.task[b] = "failed"
    /\ call' = Raised(call, call.result)
    /\ UNCHANGED <<host_vars, enable_s3, s3_objects, s3_uploads, fs_dirs, fs_files, shm, last_put>>

\* The loop or the map is over with every part uploaded: the parts are
\* collected and complete_multipart_upload is called with them.
CompleteStep ==
    /\ call.pc = "parts"
    /\ call.op \in UploaderOps
    /\ \A b \in DOMAIN call.task : call.task[b] = "done"
    /\ LET parts == IF call.op = "put_bytes_mpu" THEN call.parts
                    ELSE MapResults(call.results, call.arrival)
           id    == UploadIdArg(call)
           up    == s3_uploads[id]
           done(ok) == [call EXCEPT
                           !.parts = parts,
                           !.requests = @ \cup {Request("complete_multipart_upload",
                                                        CompleteSession(call.op,
                                                                        call.new_session),
                                                        FALSE, id, 0, ok)}]
       IN  \/ /\ PartsAccepted(up, parts)
              /\ s3_uploads' = CompleteMultipartUpload(s3_uploads, id)
              /\ s3_objects' = [s3_objects EXCEPT ![<<TheBucket, up.key>>] =
                                   Bytes(Assembled(up, parts))]
              /\ call' = Returned(done(TRUE),
                                  [kind |-> "mpu_response", Bucket |-> TheBucket,
                                   Key |-> up.key,
                                   ETag |-> ETag(Assembled(up, parts))])
           \/ /\ ~PartsAccepted(up, parts)
              /\ call' = Raised(done(FALSE),
                                Error("ClientError", "complete_multipart_upload"))
              /\ UNCHANGED <<s3_uploads, s3_objects>>
           \/ /\ \E f \in RemoteFaults :
                    call' = Raised(done(FALSE), Error(f, "complete_multipart_upload"))
              /\ UNCHANGED <<s3_uploads, s3_objects>>
    /\ UNCHANGED <<host_vars, enable_s3, fs_dirs, fs_files, shm, last_put>>

\* the disk when the S3IO object is made: "/" with /dev/shm and the home
\* directory; file_path itself is made by the first put
InitDirs == {<<>>, <<"dev">>, <<"dev", "shm">>, <<"home">>}

\* the remote store when the S3IO object is made: bucket b1, empty
S3Buckets == {"b1"}

InitObjects == [loc \in Buckets \X Keys |-> NoneVal]

\* an upload to the same key that another client of the store has open
OtherUpload == [key |-> UploadKey, status |-> "open", parts |-> <<>>,
                client |-> "other"]

InitUp ==
    /\ enable_s3 \in BOOLEAN
    /\ s3_objects = InitObjects
    /\ s3_uploads = <<OtherUpload>>
    /\ fs_dirs = InitDirs
    /\ fs_files = <<>>
    /\ shm = <<>>
    /\ call = IdleCall
    /\ last_put = <<>>
    /\ S3IOHost

NextUp ==
    \/ \E op \in UploaderOps, nbytes \in 0..MaxLen, block_size \in 1..MaxBlock,
          new_session \in BOOLEAN :
          PutBytesMpuCall(op, nbytes, block_size, new_session)
    \/ \E b \in 0..MaxLen : UploadPartStep(b)
    \/ PoolMapRaises
    \/ CompleteStep
    \/ ReturnToCaller

SpecUp == InitUp /\ [][NextUp]_vars

-----------------------------------------------------------------------------
(* The remote store, as put_bytes, get_bytes, get_byte_range and the        *)
(* existence checks use it                                                  *)

\* the data the callers store
Payloads == {<<>>, <<7, 8, 9>>}

\* the length of the longest payload
MaxPayloadLen == Len(<<7, 8, 9>>)

\* for attempt in range(10)
RetryLimit == 10

\* the loop of put_bytes / get_bytes makes another attempt
AttemptsLeftOneMore(attempt) == attempt <= RetryLimit

AttemptsLeft(attempt) == attempt < RetryLimit

\* what the store answers to a request on an object when no transient
\* failure hits it
StoreAnswer(objects, bucket, key) ==
    IF bucket \notin S3Buckets THEN "NoSuchBucket"
    ELSE IF objects[<<bucket, key>>] = NoneVal THEN "NoSuchKey"
    ELSE "ok"

\* the answers a request on an object may get: the store's, or a transient
\* failure
ObjectAnswers(objects, bucket, key) ==
    {StoreAnswer(objects, bucket, key)} \cup RemoteFaults

\* the answers put_object may get
PutAnswers(bucket) ==
    (IF bucket \in S3Buckets THEN {"ok"} ELSE {"NoSuchBucket"}) \cup RemoteFaults

\* botocore.exceptions.ClientError: what the store itself refuses with
ClientErrors == {"ClientError", "NoSuchBucket", "NoSuchKey", "InvalidRange"}

\* last_error as it would be if only the first failure were kept
LastErrorKeepFirst(last_error, e) == IF last_error = "None" THEN e ELSE last_error

\* last_error = str(e)
LastError(last_error, e) == e

\* One attempt of a retry loop that failed with e: the next attempt, or,
\* after the last one, RuntimeError(where, 'exceeded max retries', last_error)
AfterFailedAttempt(c, where, e) ==
    LET failed == [c EXCEPT !.attempt = @ + 1, !.answer = e,
                            !.last_error = LastError(@, e)]
    IN  IF AttemptsLeft(failed.attempt) THEN failed
        ELSE Raised(failed, Error("RuntimeError",
                                  <<where, "exceeded max retries", failed.last_error>>))

-----------------------------------------------------------------------------
(* put_bytes *)

LocalPutBytesAppend(dirs, files, bucket, key, data) ==
    LET w        == LocalPutBytes(dirs, files, bucket, key, data)
        filepath == ObjectPath(bucket, key)
    IN  IF w.ok /\ filepath \in DOMAIN files
        THEN [w EXCEPT !.files[filepath] = files[filepath] \o data]
        ELSE w

\* put_bytes on disk, as the method calls it
DiskPut(dirs, files, bucket, key, data) ==
    LocalPutBytes(dirs, files, bucket, key, data)

\* the location was put to or deleted: the last put no longer counts
Touched(hist, bucket, key) == [hist EXCEPT ![<<bucket, key>>] = NoneVal]

\* Entry of put_bytes. On disk the whole write; on the remote store the
\* start of the retry loop.
PutBytesCall(bucket, key, data) ==
    /\ CallFree
    /\ LET base == [op |-> "put_bytes", pc |-> "retry", outcome |-> "none",
                    result |-> NoneVal, bucket |-> bucket, key |-> key,
                    data |-> data, attempt |-> 0, answer |-> "none",
                    last_error |-> "None"]
       IN  IF S3Enabled
           THEN /\ call' = base
                /\ last_put' = Touched(last_put, bucket, key)
                /\ UNCHANGED <<fs_dirs, fs_files>>
           ELSE LET w == DiskPut(fs_dirs, fs_files, bucket, key, data)
                IN  /\ fs_dirs' = w.dirs
                    /\ fs_files' = w.files
                    /\ call' = IF w.ok THEN Returned(base, NoneVal)
                                       ELSE Raised(base, Error(w.error, "none"))
                    /\ last_put' = [last_put EXCEPT ![<<bucket, key>>] =
                                       IF w.ok THEN Bytes(data) ELSE NoneVal]
    /\ UNCHANGED <<host_vars, enable_s3, s3_objects, s3_uploads, shm>>

\* One iteration of put_bytes's loop: put_object succeeds and the method
\* returns, or it fails and the loop goes on or is exhausted.
PutBytesAttempt ==
    /\ call.op = "put_bytes"
    /\ call.pc = "retry"
    /\ \E a \in PutAnswers(call.bucket) :
          IF a = "ok"
          THEN /\ s3_objects' = [s3_objects EXCEPT ![<<call.bucket, call.key>>] =
                                    Bytes(call.data)]
               /\ call' = Returned([call EXCEPT !.attempt = @ + 1, !.answer = a], NoneVal)
               /\ last_put' = [last_put EXCEPT ![<<call.bucket, call.key>>] =
                                  Bytes(call.data)]
          ELSE /\ call' = AfterFailedAttempt(call, "s3io.put_bytes", a)
               /\ UNCHANGED <<s3_objects, last_put>>
    /\ UNCHANGED <<host_vars, enable_s3, s3_uploads, fs_dirs, fs_files, shm>>

-----------------------------------------------------------------------------
(* get_bytes *)

\* get_bytes on disk: None when the bucket directory or the path is missing,
\* else the file's content; open() fails on a directory
LocalGetBytes(dirs, files, bucket, key) ==
    LET directory == BucketPath(bucket)
        path      == ObjectPath(bucket, key)
        exists(q) == q \in dirs \/ q \in DOMAIN files
    IN  IF ~(exists(directory) /\ exists(path))
        THEN [ok |-> TRUE, result |-> NoneVal]
        ELSE IF path \in dirs
        THEN [ok |-> FALSE, result |-> Error("IsADirectoryError", "none")]
        ELSE [ok |-> TRUE, result |-> Bytes(files[path])]

\* Entry of get_bytes. On disk the whole read. With use_new, one
\* download_fileobj whose failure is not caught. Else the start of the retry
\* loop.
GetBytesCall(bucket, key, use_new) ==
    /\ CallFree
    /\ LET base == [op |-> "get_bytes", pc |-> "retry", outcome |-> "none",
                    result |-> NoneVal, bucket |-> bucket, key |-> key,
                    use_new |-> use_new, attempt |-> 0, answer |-> "none",
                    last_error |-> "None"]
       IN  IF ~S3Enabled
           THEN LET r == LocalGetBytes(fs_dirs, fs_files, bucket, key)
                IN  call' = IF r.ok THEN Returned(base, r.result)
                                    ELSE Raised(base, r.result)
           ELSE IF use_new
           THEN \E a \in ObjectAnswers(s3_objects, bucket, key) :
                   call' = IF a = "ok"
                           THEN Returned([base EXCEPT !.attempt = 1, !.answer = a],
                                         s3_objects[<<bucket, key>>])
                           ELSE Raised([base EXCEPT !.attempt = 1, !.answer = a],
                                       Error(a, "download_fileobj"))
           ELSE call' = base
    /\ UNCHANGED <<host_vars, enable_s3, s3_objects, s3_uploads, fs_dirs, fs_files, shm, last_put>>

\* One iteration of get_bytes's loop: o.get()['Body'].read() succeeds and the
\* bytes are returned, or it fails and the loop goes on or is exhausted.
GetBytesAttempt ==
    /\ call.op = "get_bytes"
    /\ call.pc = "retry"
    /\ \E a \in ObjectAnswers(s3_objects, call.bucket, call.key) :
          call' = IF a = "ok"
                  THEN Returned([call EXCEPT !.attempt = @ + 1, !.answer = a],
                                s3_objects[<<call.bucket, call.key>>])
                  ELSE AfterFailedAttempt(call, "s3io.get_bytes", a)
    /\ UNCHANGED <<host_vars, enable_s3, s3_objects, s3_uploads, fs_dirs, fs_files, shm, last_put>>

-----------------------------------------------------------------------------
(* get_byte_range *)

\* np.frombuffer(d, dtype=np.uint8, count=-1, offset=0): the uint8 array of
\* the bytes of d
NpFromBuffer(d) == [kind |-> "uint8array", val |-> d]

\* f.seek(pos, 0); f.read(size): up to size bytes from pos, everything from
\* pos when size is negative
FileRead(content, pos, size) ==
    IF size < 0 THEN PySlice(content, pos, Len(content))
                ELSE PySlice(content, pos, pos + size)

\* What the store may answer to a GET with Range 'bytes=<s3_start>-<s3_end - 1>'
\* on an object of content obj: the bytes first..last clipped to the object; a
\* 416 when first is beyond the object; and for a range whose last is before
\* its first (s3_start = s3_end) either the header is ignored and the whole
\* object is sent, or the request is refused.
RangedGetAnswers(obj, s3_start, s3_end) ==
    LET first == s3_start
        last  == s3_end - 1
    IN  IF last < first THEN {Bytes(obj), Error("InvalidRange", "none")}
        ELSE IF first >= Len(obj) THEN {Error("InvalidRange", "none")}
        ELSE {Bytes(SubSeq(obj, first + 1, Min(last, Len(obj) - 1) + 1))}

\* the outcomes of o.get(Range=...)['Body'].read() in get_byte_range
RemoteRangeAnswers(objects, bucket, key, s3_start, s3_end) ==
    LET a == StoreAnswer(objects, bucket, key)
    IN  (IF a = "ok"
         THEN RangedGetAnswers(objects[<<bucket, key>>].val, s3_start, s3_end)
         ELSE {Error(a, "none")})
        \cup {Error(f, "transient") : f \in RemoteFaults}

\* `while True:` of get_byte_range after a GET that failed with a
\* ClientError: `break`, the loop does not go round again
RangeLoopRetriesClientError(answer) == answer.class \in ClientErrors

RangeLoopGoesOn(answer) == FALSE

\* One pass of get_byte_range's loop on the remote store: the GET gave bytes
\* and they are returned; a ClientError ends the loop and None is returned;
\* any other failure is not caught
RemoteGetByteRange(c, answer) ==
    IF answer.kind = "bytes" THEN Returned(c, NpFromBuffer(answer.val))
    ELSE IF answer.class \in ClientErrors
    THEN IF RangeLoopGoesOn(answer) THEN c ELSE Returned(c, NoneVal)
    ELSE Raised(c, answer)

\* get_byte_range on disk
LocalGetByteRange(dirs, files, bucket, key, s3_start, s3_end) ==
    LET directory == BucketPath(bucket)
        path      == ObjectPath(bucket, key)
        exists(q) == q \in dirs \/ q \in DOMAIN files
    IN  IF ~(exists(directory) /\ exists(path))
        THEN [ok |-> TRUE, result |-> NoneVal]
        ELSE IF path \in dirs
        THEN [ok |-> FALSE, result |-> Error("IsADirectoryError", "none")]
        ELSE [ok |-> TRUE,
              result |-> NpFromBuffer(FileRead(files[path], s3_start, s3_end - s3_start))]

\* Entry of get_byte_range. On disk the whole read; on the remote store the
\* start of the `while True` loop.
GetByteRangeCall(bucket, key, s3_start, s3_end) ==
    /\ CallFree
    /\ LET base == [op |-> "get_byte_range", pc |-> "retry", outcome |-> "none",
                    result |-> NoneVal, bucket |-> bucket, key |-> key,
                    s3_start |-> s3_start, s3_end |-> s3_end, attempt |-> 0,
                    answer |-> NoneVal]
       IN  IF S3Enabled
           THEN call' = base
           ELSE LET r == LocalGetByteRange(fs_dirs, fs_files, bucket, key, s3_start, s3_end)
                IN  call' = IF r.ok THEN Returned(base, r.result)
                                    ELSE Raised(base, r.result)
    /\ UNCHANGED <<host_vars, enable_s3, s3_objects, s3_uploads, fs_dirs, fs_files, shm, last_put>>

\* One pass of get_byte_range's loop: the ranged GET and what follows it
GetByteRangeAttempt ==
    /\ call.op = "get_byte_range"
    /\ call.pc = "retry"
    /\ \E a \in RemoteRangeAnswers(s3_objects, call.bucket, call.key,
                                    call.s3_start, call.s3_end) :
          call' = RemoteGetByteRange([call EXCEPT !.attempt = @ + 1, !.answer = a], a)
    /\ UNCHANGED <<host_vars, enable_s3, s3_objects, s3_uploads, fs_dirs, fs_files, shm, last_put>>

-----------------------------------------------------------------------------
(* bucket_exists, object_exists *)

\* e.response['Error']['Code'] of a failed HEAD request: the digits of the
\* HTTP status
HeadErrorCodes == {<<4, 0, 4>>, <<4, 0, 3>>, <<5, 0, 0>>}

RECURSIVE ParseInt(_)
\* int(code) of a string of decimal digits
ParseInt(digits) ==
    IF digits = <<>> THEN 0
    ELSE 10 * ParseInt(SubSeq(digits, 1, Len(digits) - 1)) + digits[Len(digits)]

\* a truth value as a result
Bool(b) == [kind |-> "bool", val |-> b]

\* the answer of head_bucket / head_object: <<>> for success, or the code of
\* the ClientError: 404 when the target is missing, any other code at any time
HeadAnswers(present) ==
    (IF present THEN {<<>>} ELSE {<<4, 0, 4>>}) \cup (HeadErrorCodes \ {<<4, 0, 4>>})

\* if error_code == 404
IsNotFoundOrForbidden(error_code) == error_code \in {404, 403}

IsNotFound(error_code) == error_code = 404

\* the try/except of bucket_exists and object_exists
HeadOutcome(c, answer) ==
    IF answer = <<>> THEN Returned(c, Bool(TRUE))
    ELSE LET error_code == ParseInt(answer)
         IN  IF IsNotFound(error_code) THEN Returned(c, Bool(FALSE))
             ELSE Raised(c, Error("Exception", <<"ClientError", error_code>>))

\* bucket_exists, the whole method
BucketExistsCall(bucket) ==
    /\ CallFree
    /\ LET base == [op |-> "bucket_exists", pc |-> "head", outcome |-> "none",
                    result |-> NoneVal, bucket |-> bucket, key |-> <<>>,
                    answer |-> <<>>]
       IN  IF S3Enabled
           THEN \E a \in HeadAnswers(bucket \in S3Buckets) :
                   call' = HeadOutcome([base EXCEPT !.answer = a], a)
           ELSE call' = Returned(base, Bool((BucketPath(bucket) \in fs_dirs
                                             \/ BucketPath(bucket) \in DOMAIN fs_files)
                                            /\ BucketPath(bucket) \in fs_dirs))
    /\ UNCHANGED <<host_vars, enable_s3, s3_objects, s3_uploads, fs_dirs, fs_files, shm, last_put>>

\* object_exists, the whole method
ObjectExistsCall(bucket, key) ==
    /\ CallFree
    /\ LET base == [op |-> "object_exists", pc |-> "head", outcome |-> "none",
                    result |-> NoneVal, bucket |-> bucket, key |-> key,
                    answer |-> <<>>]
           path == ObjectPath(bucket, key)
       IN  IF S3Enabled
           THEN \E a \in HeadAnswers(StoreAnswer(s3_objects, bucket, key) = "ok") :
                   call' = HeadOutcome([base EXCEPT !.answer = a], a)
           ELSE call' = Returned(base, Bool((path \in fs_dirs \/ path \in DOMAIN fs_files)
                                            /\ path \in DOMAIN fs_files))
    /\ UNCHANGED <<host_vars, enable_s3, s3_objects, s3_uploads, fs_dirs, fs_files, shm, last_put>>

-----------------------------------------------------------------------------
(* delete_objects *)

RECURSIVE RemoveEmptyParents(_, _, _)
\* while not list(parent.iterdir()): parent.rmdir(); stop at "/" (the only
\* path that is its own parent), else go on with parent.parent. rmdir of "/"
\* itself fails.
RemoveEmptyParents(dirs, files, parent) ==
    IF Children(dirs, files, parent) # {} THEN [ok |-> TRUE, dirs |-> dirs]
    ELSE IF parent = <<>> THEN [ok |-> FALSE, dirs |-> dirs]
    ELSE RemoveEmptyParents(dirs \ {parent}, files, Parent(parent))

RECURSIVE LocalDeleteObjectsEveryKey(_, _, _, _, _)
RECURSIVE LocalDeleteObjects(_, _, _, _, _)
\* the loop as it would be if it reported every key it was given
LocalDeleteObjectsEveryKey(dirs, files, bucket, keys, response) ==
    IF keys = <<>>
    THEN [ok |-> TRUE, dirs |-> dirs, files |-> files, response |-> response]
    ELSE LET k        == Head(keys)
             filepath == ObjectPath(bucket, k)
         IN  IF filepath \in DOMAIN files
             THEN LET unlinked == [q \in DOMAIN files \ {filepath} |-> files[q]]
                      r        == RemoveEmptyParents(dirs, unlinked, Parent(filepath))
                  IN  LocalDeleteObjectsEveryKey(r.dirs, unlinked, bucket, Tail(keys),
                                                 Append(response, k))
             ELSE LocalDeleteObjectsEveryKey(dirs, files, bucket, Tail(keys),
                                             Append(response, k))

\* the loop of delete_objects on disk over the keys left, response being the
\* keys deleted so far
LocalDeleteObjects(dirs, files, bucket, keys, response) ==
    IF keys = <<>>
    THEN [ok |-> TRUE, dirs |-> dirs, files |-> files, response |-> response]
    ELSE LET k        == Head(keys)
             filepath == ObjectPath(bucket, k)
         IN  IF filepath \in DOMAIN files
             THEN LET unlinked == [q \in DOMAIN files \ {filepath} |-> files[q]]
                      r        == RemoveEmptyParents(dirs, unlinked, Parent(filepath))
                  IN  IF r.ok
                      THEN LocalDeleteObjects(r.dirs, unlinked, bucket, Tail(keys),
                                              Append(response, k))
                      ELSE [ok |-> FALSE, dirs |-> r.dirs, files |-> unlinked,
                            response |-> Append(response, k)]
             ELSE LocalDeleteObjects(dirs, files, bucket, Tail(keys), response)

\* the elements of a sequence
Range(seq) == {seq[i] : i \in DOMAIN seq}

\* the key lists the callers pass
KeyLists == {<<>>} \cup {<<k>> : k \in Keys} \cup {<<k1, k2>> : k1 \in Keys, k2 \in Keys}

\* a list as a result
List(seq) == [kind |-> "list", val |-> seq]

\* delete_objects, the whole method. On the remote store one delete_objects
\* request, whose failure is not caught and whose 'Deleted' names every key
\* asked for; on disk the loop over the keys.
DeleteObjectsCall(bucket, keys) ==
    /\ CallFree
    /\ LET base == [op |-> "delete_objects", pc |-> "delete", outcome |-> "none",
                    result |-> NoneVal, bucket |-> bucket, keys |-> keys,
                    answer |-> "none"]
       IN  IF S3Enabled
           THEN /\ \E a \in (IF bucket \notin S3Buckets THEN {"NoSuchBucket"}
                             ELSE IF keys = <<>> THEN {"MalformedXML"}
                             ELSE {"ok"}) \cup RemoteFaults :
                      IF a = "ok"
                      THEN /\ s3_objects' = [loc \in DOMAIN s3_objects |->
                                                IF loc[1] = bucket /\ loc[2] \in Range(keys)
                                                THEN NoneVal ELSE s3_objects[loc]]
                           /\ call' = Returned([base EXCEPT !.answer = a], List(keys))
                      ELSE /\ call' = Raised([base EXCEPT !.answer = a],
                                             Error(a, "delete_objects"))
                           /\ UNCHANGED s3_objects
                /\ UNCHANGED <<fs_dirs, fs_files>>
           ELSE LET r == LocalDeleteObjects(fs_dirs, fs_files, bucket, keys, <<>>)
                IN  /\ fs_dirs' = r.dirs
                    /\ fs_files' = r.files
                    /\ call' = IF r.ok THEN Returned(base, List(r.response))
                                       ELSE Raised(base, Error("OSError", "rmdir"))
                    /\ UNCHANGED s3_objects
    /\ last_put' = [loc \in DOMAIN last_put |->
                       IF loc[1] = bucket /\ loc[2] \in Range(keys)
                       THEN NoneVal ELSE last_put[loc]]
    /\ UNCHANGED <<host_vars, enable_s3, s3_uploads, shm>>

-----------------------------------------------------------------------------
(* list_objects *)

\* the keys of the model in the order the store lists them (ascending in the
\* bytes of the key string: "d" < "d/k" < "k")
KeyOrder == << <<"d">>, <<"d", "k">>, <<"k">> >>

\* the prefix arguments the callers pass: '' and 'd'
ListPrefixes == {<<>>, <<"d">>}

\* max_keys=100, the default of list_objects
DefaultMaxKeys == 100

\* the max_keys arguments the callers pass
MaxKeysArgs == {1, 2, DefaultMaxKeys}

\* the key starts with the prefix (prefixes of whole names only)
HasPrefix(key, prefix) ==
    /\ Len(prefix) <= Len(key)
    /\ SubSeq(key, 1, Len(prefix)) = prefix

\* list_objects(Bucket, Prefix, MaxKeys) of the store: the keys of the bucket
\* that start with the prefix, in listing order, the first max_keys of them
RemoteListing(objects, bucket, prefix, max_keys) ==
    LET present(key) == objects[<<bucket, key>>] # NoneVal /\ HasPrefix(key, prefix)
        all          == SelectSeq(KeyOrder, present)
    IN  SubSeq(all, 1, Min(max_keys, Len(all)))

\* the answers list_objects of the store may get: the listing; a ClientError
\* whose code is the name of the error or, with no error document in the
\* answer, the digits of the HTTP status; a timeout
ListAnswers(bucket) ==
    (IF bucket \in S3Buckets
     THEN {[kind |-> "ok"]}
     ELSE {[kind |-> "ClientError", name |-> "NoSuchBucket"]})
    \cup {[kind |-> "ClientError", digits |-> <<5, 0, 3>>],
          [kind |-> "ReadTimeoutError"]}

\* the except clause of list_objects: error_code = int(code), which fails on
\* a code that is a name, then raise Exception("ClientError", error_code)
ListErrorOutcome(c, answer) ==
    IF answer.kind # "ClientError" THEN Raised(c, Error(answer.kind, "list_objects"))
    ELSE IF "digits" \in DOMAIN answer
    THEN Raised(c, Error("Exception", <<"ClientError", ParseInt(answer.digits)>>))
    ELSE Raised(c, Error("ValueError", answer.name))

\* the sequences that hold every element of S once
Orderings(S) ==
    {f \in [1..Cardinality(S) -> S] : \A i, j \in 1..Cardinality(S) : f[i] = f[j] => i = j}

\* directory.glob('{}**/*'.format(prefix)) filtered by is_file, relative to the
\* bucket directory: every regular file below bucket/prefix (below the bucket
\* for prefix ''); max_keys is not used. The order is the directory's.
LocalListing(dirs, files, bucket, prefix) ==
    LET directory == BucketPath(bucket)
        top       == directory \o prefix
        below(q)  == Len(q) > Len(top) /\ SubSeq(q, 1, Len(top)) = top
    IN  IF directory \notin dirs /\ directory \notin DOMAIN files THEN {}
        ELSE IF top \notin dirs THEN {}
        ELSE {SubSeq(q, Len(directory) + 1, Len(q)) : q \in {f \in DOMAIN files : below(f)}}

\* list_objects, the whole method
ListObjectsCall(bucket, prefix, max_keys) ==
    /\ CallFree
    /\ LET base == [op |-> "list_objects", pc |-> "list", outcome |-> "none",
                    result |-> NoneVal, bucket |-> bucket, prefix |-> prefix,
                    max_keys |-> max_keys, answer |-> [kind |-> "none"]]
       IN  IF S3Enabled
           THEN \E a \in ListAnswers(bucket) :
                   call' = IF a.kind = "ok"
                           THEN Returned([base EXCEPT !.answer = a],
                                         List(RemoteListing(s3_objects, bucket, prefix,
                                                            max_keys)))
                           ELSE ListErrorOutcome([base EXCEPT !.answer = a], a)
           ELSE \E listing \in Orderings(LocalListing(fs_dirs, fs_files, bucket, prefix)) :
                   call' = Returned(base, List(listing))
    /\ UNCHANGED <<host_vars, enable_s3, s3_objects, s3_uploads, fs_dirs, fs_files, shm, last_put>>

-----------------------------------------------------------------------------
(* The specification of the byte IO on both backends *)

Init ==
    /\ enable_s3 \in BOOLEAN
    /\ s3_objects = InitObjects
    /\ s3_uploads = <<>>
    /\ fs_dirs = InitDirs
    /\ fs_files = <<>>
    /\ shm = <<>>
    /\ call = IdleCall
    /\ last_put = [loc \in Buckets \X Keys |-> NoneVal]
    /\ S3IOHost

Next ==
    \/ \E bucket \in WriteBuckets, key \in Keys, data \in Payloads :
          PutBytesCall(bucket, key, data)
    \/ PutBytesAttempt
    \/ \E bucket \in Buckets, key \in Keys, use_new \in BOOLEAN :
          GetBytesCall(bucket, key, use_new)
    \/ GetBytesAttempt
    \/ \E bucket \in Buckets, key \in Keys :
          \E s3_start \in 0..MaxPayloadLen + 1, s3_end \in 0..MaxPayloadLen + 1 :
             /\ s3_start <= s3_end
             /\ GetByteRangeCall(bucket, key, s3_start, s3_end)
    \/ GetByteRangeAttempt
    \/ \E bucket \in Buckets : BucketExistsCall(bucket)
    \/ \E bucket \in Buckets, key \in Keys : ObjectExistsCall(bucket, key)
    \/ \E bucket \in Buckets, keys \in KeyLists : DeleteObjectsCall(bucket, keys)
    \/ \E bucket \in Buckets, prefix \in ListPrefixes, max_keys \in MaxKeysArgs :
          ListObjectsCall(bucket, prefix, max_keys)
    \/ ReturnToCaller

Spec == Init /\ [][Next]_vars

-----------------------------------------------------------------------------
(* get_byte_range_mp *)

\* sa.create(array_name, shape=n, dtype=np.uint8): n zero bytes
ZeroArray(n) == [i \in 1..n |-> 0]

\* generate_array_name: the base name, a fresh uuid and the pid; the uuid is
\* modelled by the number of arrays alive, which no live array carries. On
\* darwin the name gets the scheme 'file://': the array is a file outside
\* /dev/shm.
ArrayName(bucket, key) ==
    LET array_name == <<"S3IO", bucket, key, Cardinality(DOMAIN shm) + 1>>
    IN  IF platform = "darwin" THEN <<"file://">> \o array_name ELSE array_name

\* the live arrays that get_byte_range_mp has created
DownloaderArrays(arrays) ==
    {n \in DOMAIN arrays : n[1] = "S3IO" \/ (n[1] = "file://" /\ n[2] = "S3IO")}

\* f.startswith(prefix) on the names of the model, whose first token tells
StartsWith(f, prefix) ==
    <<f[1], prefix>> \in {<<"S3IO", "S3">>, <<"DCCORE", "DCCORE">>}

\* os.listdir("/dev/shm"): the arrays named without a scheme
ListDirDevShm(arrays) == {f \in DOMAIN arrays : f[1] # "file://"}

\* list_created_arrays
ListCreatedArrays(arrays) ==
    {f \in ListDirDevShm(arrays) : StartsWith(f, "S3") \/ StartsWith(f, "DCCORE")}

\* sa.delete(a) for every a of the list
DeleteArrays(arrays, list) == [n \in DOMAIN arrays \ list |-> arrays[n]]

\* numpy's shared_array[start:end] = d for a uint8 array d: the target is the
\* slice clipped to the array; d must have the target's length, or length 1
\* (it is then broadcast); else ValueError. None cannot be assigned.
NumpySetSlice(array, start, end, d) ==
    LET lo     == Min(start, Len(array))
        hi     == Max(lo, Min(end, Len(array)))
        target == hi - lo
    IN  IF d.kind # "uint8array" THEN [ok |-> FALSE, error |-> "TypeError", array |-> array]
        ELSE IF Len(d.val) = target
        THEN [ok |-> TRUE, error |-> "none",
              array |-> [i \in 1..Len(array) |->
                            IF i > lo /\ i <= hi THEN d.val[i - lo] ELSE array[i]]]
        ELSE IF Len(d.val) = 1
        THEN [ok |-> TRUE, error |-> "none",
              array |-> [i \in 1..Len(array) |->
                            IF i > lo /\ i <= hi THEN d.val[1] ELSE array[i]]]
        ELSE [ok |-> FALSE, error |-> "ValueError", array |-> array]

\* work_get: the byte range of block_number, its end clipped to s3_max_size
WorkGetRange(block_number, s3_max_size, block_size) ==
    LET start == block_number * block_size
        end0  == (block_number + 1) * block_size
        end   == IF end0 > s3_max_size THEN s3_max_size ELSE end0
    IN  [start |-> start, end |-> end]

DownloadKey == <<"k">>

\* Entry of get_byte_range_mp. On disk: get_byte_range. On the remote store:
\* a GET of the object for its ContentLength, which may fail, then the shared
\* array of s3_end - s3_start bytes is created for the map.
GetByteRangeMpCall(s3_start, s3_end, block_size) ==
    /\ CallFree
    /\ LET bucket == TheBucket
           key    == DownloadKey
           base   == [op |-> "get_byte_range_mp", pc |-> "map", outcome |-> "none",
                      result |-> NoneVal, bucket |-> bucket, key |-> key,
                      s3_start |-> s3_start, s3_end |-> s3_end,
                      block_size |-> block_size, array_name |-> <<>>,
                      shared_array |-> <<>>, s3_max_size |-> 0, task |-> <<>>,
                      work |-> <<>>, attach_failed |-> FALSE, transient |-> FALSE]
       IN  IF ~S3Enabled
           THEN LET r == LocalGetByteRange(fs_dirs, fs_files, bucket, key, s3_start, s3_end)
                IN  /\ call' = IF r.ok THEN Returned(base, r.result)
                                       ELSE Raised(base, r.result)
                    /\ UNCHANGED shm
           ELSE \E a \in ObjectAnswers(s3_objects, bucket, key) :
                   IF a # "ok"
                   THEN /\ call' = Raised([base EXCEPT !.transient = a \in RemoteFaults],
                                          Error(a, "get"))
                        /\ UNCHANGED shm
                   ELSE LET s3_max_size == Len(s3_objects[<<bucket, key>>].val)
                            s3_obj_size == s3_end - s3_start
                            num_streams == NumBlocks(s3_obj_size, block_size)
                            array_name  == ArrayName(bucket, key)
                        IN  /\ Cardinality(DownloaderArrays(shm)) < MaxArrays
                            /\ shm' = [n \in DOMAIN shm \cup {array_name} |->
                                          IF n = array_name THEN s3_obj_size
                                          ELSE shm[n]]
                            /\ call' = [base EXCEPT
                                           !.array_name = array_name,
                                           !.shared_array = ZeroArray(s3_obj_size),
                                           !.s3_max_size = s3_max_size,
                                           !.task = [b \in 0..num_streams - 1 |-> "pending"]]
    /\ UNCHANGED <<host_vars, enable_s3, s3_objects, s3_uploads, fs_dirs, fs_files, last_put>>

\* One work_get task of the pool: the ranged GET of its block through
\* get_byte_range, then the bytes are stored in the attached shared array.
WorkGet(b) ==
    /\ call.op = "get_byte_range_mp"
    /\ call.pc = "map"
    /\ b \in DOMAIN call.task
    /\ call.task[b] = "pending"
    /\ LET r == WorkGetRange(b, call.s3_max_size, call.block_size)
           c == [op |-> "get_byte_range", pc |-> "retry", outcome |-> "none",
                 result |-> NoneVal]
           \* what the task did: the session of its GET (get_byte_range is
           \* called with new_session True) and the index range of its
           \* assignment
           did == [j \in DOMAIN call.work \cup {b} |->
                     IF j = b
                     THEN [session |-> S3Resource(TRUE), start |-> r.start, end |-> r.end]
                     ELSE call.work[j]]
       IN  \E a \in RemoteRangeAnswers(s3_objects, call.bucket, call.key, r.start, r.end) :
              LET got  == RemoteGetByteRange(c, a)
                  seen == call.transient \/ (a.kind = "error" /\ a.cause = "transient")
              IN  IF got.outcome = "raised" \/ call.array_name \notin DOMAIN shm
                  THEN call' = [call EXCEPT !.task[b] = "failed", !.transient = seen,
                                            !.work = did,
                                            \* sa.attach of a name that is gone
                                            !.attach_failed = @ \/ got.outcome # "raised",
                                            !.result = FirstFailure(@, Error("work_get", b))]
                  ELSE LET w == NumpySetSlice(call.shared_array, r.start, r.end,
                                              got.result)
                       IN  call' = IF w.ok
                                   THEN [call EXCEPT !.task[b] = "done",
                                                     !.transient = seen,
                                                     !.work = did,
                                                     !.shared_array = w.array]
                                   ELSE [call EXCEPT !.task[b] = "failed",
                                                     !.transient = seen,
                                                     !.work = did,
                                                     !.result = FirstFailure(@, Error(w.error, b))]
    /\ UNCHANGED <<host_vars, enable_s3, s3_objects, s3_uploads, fs_dirs, fs_files, shm, last_put>>

\* The end of get_byte_range_mp as it would be without sa.delete(array_name)
GetByteRangeMpFinishNoDelete ==
    /\ call.op = "get_byte_range_mp"
    /\ call.pc = "map"
    /\ \A b \in DOMAIN call.task : call.task[b] # "pending"
    /\ call' = IF \E b \in DOMAIN call.task : call.task[b] = "failed"
               THEN Raised(call, call.result)
               ELSE Returned(call, NpFromBuffer(call.shared_array))
    /\ UNCHANGED <<host_vars, enable_s3, s3_objects, s3_uploads, fs_dirs, fs_files, shm, last_put>>

\* pool.map of get_byte_range_mp is over. A task raised: the failure goes to
\* the caller, the array stays. Else sa.delete(array_name), which raises
\* when the name is gone, and the array attached before is returned.
GetByteRangeMpFinish ==
    /\ call.op = "get_byte_range_mp"
    /\ call.pc = "map"
    /\ \A b \in DOMAIN call.task : call.task[b] # "pending"
    /\ IF \E b \in DOMAIN call.task : call.task[b] = "failed"
       THEN /\ call' = Raised(call, call.result)
            /\ UNCHANGED shm
       ELSE IF call.array_name \notin DOMAIN shm
       THEN /\ call' = Raised(call, Error("FileNotFoundError", "sa.delete"))
            /\ UNCHANGED shm
       ELSE /\ shm' = DeleteArrays(shm, {call.array_name})
            /\ call' = Returned(call, NpFromBuffer(call.shared_array))
    /\ UNCHANGED <<host_vars, enable_s3, s3_objects, s3_uploads, fs_dirs, fs_files, last_put>>

\* the store and the disk hold one object of nbytes bytes under the key
InitDown ==
    /\ enable_s3 \in BOOLEAN
    /\ \E nbytes \in 0..MaxLen :
          /\ s3_objects = [InitObjects EXCEPT ![<<TheBucket, DownloadKey>>] =
                              Bytes(Payload(nbytes))]
          /\ fs_files = [q \in {ObjectPath(TheBucket, DownloadKey)} |-> Payload(nbytes)]
    /\ s3_uploads = <<>>
    /\ fs_dirs = InitDirs \cup Prefixes(BucketPath(TheBucket))
    /\ shm = <<>>
    /\ call = IdleCall
    /\ last_put = <<>>
    /\ S3IOHost

NextDown ==
    \/ \E s3_start \in 0..MaxLen + 1, s3_end \in 0..MaxLen + 1, block_size \in 1..MaxBlock :
          /\ s3_start <= s3_end
          /\ GetByteRangeMpCall(s3_start, s3_end, block_size)
    \/ \E b \in 0..MaxLen : WorkGet(b)
    \/ GetByteRangeMpFinish
    \/ ReturnToCaller

SpecDown == InitDown /\ [][NextDown]_vars

-----------------------------------------------------------------------------
(* The shared arrays of the host: list_created_arrays, delete_created_arrays *)

\* delete_created_arrays: the arrays that list_created_arrays reports are
\* deleted; os.listdir raises when the host has no /dev/shm
DeleteCreatedArraysCall ==
    /\ CallFree
    /\ LET base == [op |-> "delete_created_arrays", pc |-> "done",
                    outcome |-> "none", result |-> NoneVal]
       IN  IF <<"dev", "shm">> \notin fs_dirs
           THEN /\ call' = Raised(base, Error("FileNotFoundError", "os.listdir"))
                /\ UNCHANGED shm
           ELSE /\ shm' = DeleteArrays(shm, ListCreatedArrays(shm))
                /\ call' = Returned(base, NoneVal)
    /\ UNCHANGED <<host_vars, enable_s3, s3_objects, s3_uploads, fs_dirs, fs_files, last_put>>

\* delete_created_arrays of another S3IO of the host, in another process:
\* nothing makes it wait for the invocation in progress here
OtherDeleteCreatedArrays ==
    /\ <<"dev", "shm">> \in fs_dirs
    /\ ListCreatedArrays(shm) # {}
    /\ shm' = DeleteArrays(shm, ListCreatedArrays(shm))
    /\ UNCHANGED <<host_vars, enable_s3, s3_objects, s3_uploads, fs_dirs, fs_files, call,
                   last_put>>

\* an array that a worker of the datacube, since gone, has left in /dev/shm
OrphanArray == <<"DCCORE", 1>>

\* The remote store holds one object of nbytes bytes. The host is Linux,
\* with or without an orphan in /dev/shm, or darwin, with or without a
\* directory /dev/shm.
InitShm ==
    /\ enable_s3 = TRUE
    /\ \E nbytes \in 0..MaxLen :
          s3_objects = [InitObjects EXCEPT ![<<TheBucket, DownloadKey>>] =
                           Bytes(Payload(nbytes))]
    /\ fs_files = <<>>
    /\ s3_uploads = <<>>
    /\ platform \in {"linux", "darwin"}
    /\ fs_dirs \in IF platform = "linux" THEN {InitDirs}
                    ELSE {InitDirs, InitDirs \ {<<"dev", "shm">>}}
    /\ shm \in IF platform = "linux" THEN {<<>>, [n \in {OrphanArray} |-> 1]}
                ELSE {<<>>}
    /\ call = IdleCall
    /\ last_put = <<>>
    /\ store = <<>>
    /\ now = 0
    /\ monitor = NoMonitor

NextShm ==
    \/ \E s3_start \in 0..MaxLen + 1, s3_end \in 0..MaxLen + 1, block_size \in 1..MaxBlock :
          /\ s3_start <= s3_end
          /\ GetByteRangeMpCall(s3_start, s3_end, block_size)
    \/ \E b \in 0..MaxLen : WorkGet(b)
    \/ GetByteRangeMpFinish
    \/ DeleteCreatedArraysCall
    \/ OtherDeleteCreatedArrays
    \/ ReturnToCaller

SpecShm == InitShm /\ [][NextShm]_vars

-----------------------------------------------------------------------------
(* Claims on the uploaders, under SpecUp *)

\* every part task of the invocation has run (the loop or the map is over)
AllChunksBuilt ==
    /\ call.op \in UploaderOps
    /\ call.mpu # 0
    /\ \A b \in DOMAIN call.task : call.task[b] # "pending"

\* the end of the byte range a chunk holds
ChunkEnd(chunk) == chunk.start + Len(chunk.body)

\* C1: for a payload of N bytes and block size B, each uploader builds
\* ceil(N/B) chunks (none for N = 0) whose byte ranges tile [0,N): the first
\* starts at 0, each next one starts where the one before ends, none is empty,
\* all but the last hold B bytes, the last ends at N, and each holds the
\* payload's bytes of its range.
C1_ChunksTilePayload ==
    AllChunksBuilt =>
        LET N == Len(call.data)
            B == call.block_size
            k == Cardinality(DOMAIN call.chunks)
        IN  /\ DOMAIN call.chunks = 0..k - 1
            /\ N = 0 => k = 0
            /\ N > 0 => (k - 1) * B < N /\ N <= k * B
            /\ \A i \in 0..k - 1 :
                  LET c == call.chunks[i]
                  IN  /\ c.start = IF i = 0 THEN 0 ELSE ChunkEnd(call.chunks[i - 1])
                      /\ Len(c.body) > 0
                      /\ Len(c.body) <= B
                      /\ i < k - 1 => Len(c.body) = B
                      /\ ChunkEnd(c) <= N
                      /\ c.body = SubSeq(call.data, c.start + 1, ChunkEnd(c))
            /\ k > 0 => ChunkEnd(call.chunks[k - 1]) = N

\* C1 witness: put_bytes_mpu_mp_shm has built two or more chunks of a payload
\* that is no multiple of the block size
C1_Witness ==
    /\ AllChunksBuilt
    /\ call.op = "put_bytes_mpu_mp_shm"
    /\ call.num_blocks >= 2
    /\ Len(call.data) % call.block_size # 0

\* a parallel uploader has called complete_multipart_upload
CompleteCalled ==
    /\ call.op \in ParallelOps
    /\ call.mpu # 0
    /\ call.pc = "done"
    /\ \A b \in DOMAIN call.task : call.task[b] = "done"

\* C2: the parts list a parallel uploader passes to
\* complete_multipart_upload is in ascending order of PartNumber, whatever
\* the order its tasks finished in.
C2_PartsAscending ==
    CompleteCalled =>
        \A i \in 1..Len(call.parts), j \in 1..Len(call.parts) :
            i < j => call.parts[i].PartNumber < call.parts[j].PartNumber

\* C2 witness: completion was called after the task of a later block
\* finished before the task of an earlier one
C2_Witness ==
    /\ CompleteCalled
    /\ call.outcome = "returned"
    /\ \E i \in 1..Len(call.arrival) - 1 : call.arrival[i] > call.arrival[i + 1]

\* C3 (as claimed): when a part upload failed after the upload was
\* initiated, the upload has been aborted by the time the call ends.
C3_AbortedAfterPartFailure ==
    ( /\ call.op \in UploaderOps
      /\ call.mpu # 0
      /\ call.pc = "done"
      /\ \E b \in DOMAIN call.task : call.task[b] = "failed" )
    => s3_uploads[call.mpu].status = "aborted"

\* the requests of kind api the invocation has issued so far
RequestsOf(api) == {r \in call.requests : r.api = api}

\* C16: in the parallel uploaders, once a part task has raised, the call
\* never issues complete_multipart_upload and ends by raising; and
\* complete_multipart_upload is issued only when each of the num_blocks tasks
\* has returned its part.
C16_ParallelUploadFailsFast ==
    (call.op \in ParallelOps /\ call.mpu # 0) =>
        /\ (\E b \in DOMAIN call.task : call.task[b] = "failed") =>
              /\ RequestsOf("complete_multipart_upload") = {}
              /\ call.pc = "done" => call.outcome = "raised"
        /\ RequestsOf("complete_multipart_upload") # {} =>
              /\ DOMAIN call.task = 0..call.num_blocks - 1
              /\ \A b \in DOMAIN call.task : call.task[b] = "done"
              /\ Len(call.parts) = call.num_blocks
              /\ \A b \in DOMAIN call.task : call.parts[b + 1] = call.results[b]

\* C16 witness: a parallel uploader raised after one of its tasks failed
\* and another returned its part
C16_Witness ==
    /\ call.op \in ParallelOps
    /\ call.mpu # 0
    /\ call.pc = "done"
    /\ call.outcome = "raised"
    /\ \E b \in DOMAIN call.task : call.task[b] = "failed"
    /\ \E b \in DOMAIN call.task : call.task[b] = "done"

\* C18 (as claimed): every request a chunk task makes from a worker process
\* (work_put, work_put_shm, work_get) goes through a session created for it,
\* never through the default session.
C18_WorkersUseFreshSession ==
    /\ (call.op \in ParallelOps /\ call.mpu # 0) =>
           \A r \in call.requests : r.worker => r.session = "new"
    /\ (call.op = "get_byte_range_mp" /\ enable_s3 /\ call.array_name # <<>>) =>
           \A b \in DOMAIN call.work : call.work[b].session = "new"

C23_PartNumbersOneToNumBlocks ==
    ( /\ call.op \in UploaderOps
      /\ call.mpu # 0
      /\ call.pc = "done"
      /\ \A b \in DOMAIN call.task : call.task[b] = "done" ) =>
        LET num_blocks == NumBlocks(Len(call.data), call.block_size)
        IN  /\ Len(call.parts) = num_blocks
            /\ \A i \in 1..Len(call.parts) : call.parts[i].PartNumber = i
            /\ {call.parts[i].PartNumber : i \in 1..Len(call.parts)} = 1..num_blocks
            /\ DOMAIN call.results = 0..num_blocks - 1
            /\ \A b \in DOMAIN call.results :
                  /\ call.results[b].PartNumber = b + 1
                  /\ \E r \in RequestsOf("upload_part") :
                        r.ok /\ r.PartNumber = b + 1
            /\ {r.PartNumber : r \in RequestsOf("upload_part")} = 1..num_blocks

C23_Witness ==
    /\ CompleteCalled
    /\ call.op = "put_bytes_mpu_mp"
    /\ call.outcome = "returned"
    /\ Len(call.parts) = 2
    /\ call.arrival = <<1, 0>>

\* C12 (as claimed): on disk every multipart put writes the whole object to
\* its file and returns a response of the shape of the remote completion
\* response, not None.
C12_EmulatedPutAnswersLikeRemote ==
    ( /\ call.op \in UploaderOps
      /\ call.pc = "done"
      /\ ~enable_s3
      /\ call.outcome = "returned" )
    => /\ ObjectPath(TheBucket, UploadKey) \in DOMAIN fs_files
       /\ fs_files[ObjectPath(TheBucket, UploadKey)] = call.data
       /\ call.result.kind = "mpu_response"

-----------------------------------------------------------------------------
(* Claims on the byte IO, under Spec *)

\* the invocation of method op has ended
Done(op) == call.op = op /\ call.pc = "done"

\* the bytes stored at a location of the backend in use, NoneVal when none
Stored(bucket, key) ==
    IF enable_s3 THEN s3_objects[<<bucket, key>>]
    ELSE IF ObjectPath(bucket, key) \in DOMAIN fs_files
         THEN Bytes(fs_files[ObjectPath(bucket, key)])
         ELSE NoneVal

\* C4: on both backends, a get_bytes that returns for a location whose last
\* put_bytes succeeded with data, with no put or delete on it since, returns
\* exactly data; on disk it always returns.
C4_PutGetRoundTrip ==
    ( /\ Done("get_bytes")
      /\ last_put[<<call.bucket, call.key>>] # NoneVal )
    => /\ call.outcome = "returned" => call.result = last_put[<<call.bucket, call.key>>]
       /\ ~enable_s3 => call.outcome = "returned"

\* C4 witness: on the remote store get_bytes returned the three bytes put
\* before, after a failed first attempt
C4_Witness ==
    /\ Done("get_bytes")
    /\ enable_s3
    /\ call.outcome = "returned"
    /\ call.attempt >= 2
    /\ call.result = Bytes(<<7, 8, 9>>)
    /\ last_put[<<call.bucket, call.key>>] = Bytes(<<7, 8, 9>>)

\* C5 (as claimed): for a stored object and 0 <= s <= e <= len(data), the
\* empty range s = e included, get_byte_range returns the bytes data[s:e] on
\* both backends (no transient failure hitting the request).
C5_RangeIsSliceOfObject ==
    ( /\ Done("get_byte_range")
      /\ Stored(call.bucket, call.key) # NoneVal
      /\ call.s3_end <= Len(Stored(call.bucket, call.key).val)
      /\ call.answer.kind = "error" => call.answer.cause # "transient" )
    => /\ call.outcome = "returned"
       /\ call.result.kind = "uint8array"
       /\ call.result.val = PySlice(Stored(call.bucket, call.key).val,
                                    call.s3_start, call.s3_end)

\* C7: on the remote store put_bytes makes at most 10 put attempts, every
\* attempt before the last one made has failed, a successful attempt ends the
\* call, and the call raises only after the 10th failed attempt, with
\* ('s3io.put_bytes', 'exceeded max retries', cause of the last failure).
C7_PutBytesRetriesAtMostTen ==
    (call.op = "put_bytes" /\ enable_s3) =>
        /\ call.attempt <= 10
        /\ call.pc = "retry" => call.attempt < 10
        /\ (call.pc = "retry" /\ call.attempt > 0) => call.answer # "ok"
        /\ call.answer = "ok" => (call.pc = "done" /\ call.outcome = "returned")
        /\ call.outcome = "returned" => call.answer = "ok"
        /\ call.outcome = "raised" =>
              /\ call.attempt = 10
              /\ call.answer # "ok"
              /\ call.result = Error("RuntimeError",
                                     <<"s3io.put_bytes", "exceeded max retries", call.answer>>)

\* C7 witness: put_bytes raised after ten failed attempts whose last cause
\* was a client error
C7_Witness ==
    /\ Done("put_bytes")
    /\ enable_s3
    /\ call.outcome = "raised"
    /\ call.attempt = 10
    /\ call.answer = "ClientError"

\* C24: on the remote store get_bytes (use_new False) makes at most 10 GET
\* attempts; every attempt before the last one made has failed; it returns
\* the body of the first attempt that succeeds; it raises only after the
\* 10th failed attempt, with ('s3io.get_bytes', 'exceeded max retries',
\* cause of the last failure).
C24_GetBytesRetriesAtMostTen ==
    (call.op = "get_bytes" /\ enable_s3 /\ ~call.use_new) =>
        /\ call.attempt <= 10
        /\ call.pc = "retry" => call.attempt < 10
        /\ (call.pc = "retry" /\ call.attempt > 0) =>
              (call.answer # "ok" /\ call.last_error = call.answer)
        /\ call.answer = "ok" => (call.pc = "done" /\ call.outcome = "returned")
        /\ call.outcome = "returned" =>
              /\ call.answer = "ok"
              /\ call.attempt >= 1
              /\ call.result = s3_objects[<<call.bucket, call.key>>]
              /\ call.result.kind = "bytes"
        /\ call.outcome = "raised" =>
              /\ call.attempt = 10
              /\ call.answer # "ok"
              /\ call.result = Error("RuntimeError",
                                     <<"s3io.get_bytes", "exceeded max retries", call.answer>>)

\* C24 witness: get_bytes raised after ten failed attempts, the last one a
\* timeout, an earlier one a refusal of the store
C24_Witness ==
    /\ Done("get_bytes")
    /\ enable_s3
    /\ ~call.use_new
    /\ call.outcome = "raised"
    /\ call.attempt = 10
    /\ call.answer = "ReadTimeoutError"
    /\ call.result.cause[3] = "ReadTimeoutError"

\* C8 (as claimed): get_bytes for a key that does not exist ends the same
\* way on both backends: it returns None (the last request not being hit by
\* a transient failure).
C8_MissingKeyReturnsNone ==
    ( /\ Done("get_bytes")
      /\ Stored(call.bucket, call.key) = NoneVal
      /\ call.answer \notin RemoteFaults )
    => /\ call.outcome = "returned"
       /\ call.result = NoneVal

\* the target of the existence check in call is missing from the backend
TargetMissing ==
    IF call.op = "bucket_exists"
    THEN IF enable_s3 THEN call.bucket \notin S3Buckets
                      ELSE BucketPath(call.bucket) \notin fs_dirs
    ELSE IF enable_s3 THEN StoreAnswer(s3_objects, call.bucket, call.key) # "ok"
                      ELSE Stored(call.bucket, call.key) = NoneVal

\* C9: bucket_exists and object_exists never raise on disk and return False
\* for a missing target; on the remote store a 404 answer gives False, a
\* missing target never gives True, and any other failure code raises an
\* error that carries that code as a number.
C9_ExistenceChecks ==
    (Done("bucket_exists") \/ Done("object_exists")) =>
        /\ ~enable_s3 => call.outcome = "returned"
        /\ (TargetMissing /\ call.outcome = "returned") => call.result = Bool(FALSE)
        /\ (enable_s3 /\ call.answer = <<4, 0, 4>>) =>
              (call.outcome = "returned" /\ call.result = Bool(FALSE))
        /\ (enable_s3 /\ call.answer \notin {<<>>, <<4, 0, 4>>}) =>
              /\ call.outcome = "raised"
              /\ call.result = Error("Exception",
                                     <<"ClientError", 100 * call.answer[1]
                                         + 10 * call.answer[2] + call.answer[3]>>)

\* C9 witness: on the remote store object_exists met a 403 and raised
C9_Witness ==
    /\ Done("object_exists")
    /\ enable_s3
    /\ call.answer = <<4, 0, 3>>
    /\ call.outcome = "raised"

\* the keys of the request that are files of the bucket, each at its first
\* place in the request
RECURSIVE DeletableKeys(_, _, _)
DeletableKeys(files, bucket, keys) ==
    IF keys = <<>> THEN <<>>
    ELSE LET k    == Head(keys)
             rest == SelectSeq(Tail(keys), LAMBDA x : x # k)
         IN  (IF ObjectPath(bucket, k) \in DOMAIN files THEN <<k>> ELSE <<>>)
             \o DeletableKeys(files, bucket, rest)

\* C30: on disk delete_objects returns the requested keys that were files,
\* in the order of the request, and skips the others without error; the
\* returned keys are no objects afterwards; the files of the keys it
\* does not return are as they were.
C30_LocalDeleteFrame ==
    [][ ( /\ CallFree
          /\ ~enable_s3
          /\ call'.op = "delete_objects" )
        => LET deleted == {ObjectPath(call'.bucket, call'.keys[i]) :
                              i \in 1..Len(call'.keys)} \cap DOMAIN fs_files
           IN  /\ call'.pc = "done"
               /\ call'.outcome = "returned"
               /\ call'.result = List(DeletableKeys(fs_files, call'.bucket, call'.keys))
               /\ \A i \in 1..Len(call'.result.val) :
                     /\ ObjectPath(call'.bucket, call'.result.val[i]) \in deleted
                     /\ ObjectPath(call'.bucket, call'.result.val[i]) \notin DOMAIN fs_files'
                     /\ ObjectPath(call'.bucket, call'.result.val[i]) \notin fs_dirs'
               /\ DOMAIN fs_files' = DOMAIN fs_files \ deleted
               /\ \A q \in DOMAIN fs_files' : fs_files'[q] = fs_files[q]
      ]_vars

\* C30 witness: of two keys requested the second was a file and is
\* returned, the first was skipped, and another object is still there
C30_Witness ==
    /\ Done("delete_objects")
    /\ ~enable_s3
    /\ call.outcome = "returned"
    /\ Len(call.keys) = 2
    /\ call.result = List(<<call.keys[2]>>)
    /\ call.keys[1] # call.keys[2]
    /\ ObjectPath(call.bucket, call.keys[2]) \notin DOMAIN fs_files
    /\ fs_files # <<>>

\* C10 (as claimed): on disk, after delete_objects deleted a file, the
\* bucket's root directory and the directories above it are still there.
C10_BucketRootKept ==
    ( /\ Done("delete_objects")
      /\ ~enable_s3
      /\ call.result.kind = "list"
      /\ call.result.val # <<>> )
    => Prefixes(BucketPath(call.bucket)) \subseteq fs_dirs

\* C13: on the remote store get_byte_range makes exactly one ranged GET per
\* call: the call ends with the first attempt, whether it failed or not.
C13_RangeGetSingleAttempt ==
    (call.op = "get_byte_range" /\ enable_s3) =>
        /\ call.attempt <= 1
        /\ call.pc = "retry" => call.attempt = 0
        /\ call.pc = "done" => call.attempt = 1

\* C13 witness: the one ranged GET failed with a client error and the call
\* has ended
C13_Witness ==
    /\ Done("get_byte_range")
    /\ enable_s3
    /\ call.attempt = 1
    /\ call.answer.kind = "error"
    /\ call.answer.class \in ClientErrors

\* C14 (as claimed): a ranged GET on the remote store that fails with a
\* client error is raised to the caller of get_byte_range, carrying that
\* error; the call does not return a value that is no bytes.
C14_RangeGetClientErrorRaised ==
    ( /\ Done("get_byte_range")
      /\ enable_s3
      /\ call.answer.kind = "error"
      /\ call.answer.class \in ClientErrors )
    => /\ call.outcome = "raised"
       /\ call.result.kind = "error"
       /\ call.result.cause = call.answer

\* C15 (as claimed): on both backends get_byte_range of a stored object with
\* an end beyond the object's length returns, without error, the bytes from
\* start to the object's end (no transient failure hitting the request).
C15_RangeEndClipped ==
    ( /\ Done("get_byte_range")
      /\ Stored(call.bucket, call.key) # NoneVal
      /\ call.s3_end > Len(Stored(call.bucket, call.key).val)
      /\ call.answer.kind = "error" => call.answer.cause # "transient" )
    => /\ call.outcome = "returned"
       /\ call.result.kind = "uint8array"
       /\ call.result.val = PySlice(Stored(call.bucket, call.key).val,
                                    call.s3_start, Len(Stored(call.bucket, call.key).val))

\* C11 (as claimed): list_objects on disk returns at most max_keys keys, as
\* the remote store does.
C11_LocalListingTruncated ==
    ( /\ Done("list_objects")
      /\ ~enable_s3
      /\ call.outcome = "returned" )
    => Len(call.result.val) <= call.max_keys

\* C21 (as claimed): on disk a filesystem failure during put_bytes,
\* get_bytes, get_byte_range or delete_objects reaches the caller as the
\* error of the remote store's transfers (the RuntimeError 'exceeded max
\* retries' with its cause), not as the filesystem's own exception.
C21_LocalFailureIsTransferError ==
    ( /\ call.op \in {"put_bytes", "get_bytes", "get_byte_range", "delete_objects"}
      /\ call.pc = "done"
      /\ ~enable_s3
      /\ call.outcome = "raised" )
    => /\ call.result.class = "RuntimeError"
       /\ call.result.class \notin {"NotADirectoryError", "IsADirectoryError", "OSError"}

\* the invocation in progress has sent a request to the remote store: it
\* holds the store's answer, counts an attempt or logs a request
RemoteRequestMade(c) ==
    CASE c.op \in {"put_bytes", "get_bytes"} -> c.attempt > 0 \/ c.answer # "none"
      [] c.op = "get_byte_range" -> c.attempt > 0 \/ c.answer # NoneVal
      [] c.op \in {"bucket_exists", "object_exists"} -> c.answer # <<>>
      [] c.op = "delete_objects" -> c.answer # "none"
      [] c.op = "list_objects" -> c.answer.kind # "none"
      [] c.op \in UploaderOps -> c.requests # {}
      [] c.op = "get_byte_range_mp" -> c.array_name # <<>> \/ c.work # <<>> \/ c.transient
      [] OTHER -> FALSE

-----------------------------------------------------------------------------
(* Claims on the parallel download, under SpecDown *)

\* C6 (as claimed): for a stored object, a range [start,end) within it
\* (start not necessarily 0) and a block size B > 0, get_byte_range_mp returns
\* the bytes data[start:end] (no transient failure hitting a request).
C6_ParallelRangeIsSliceOfObject ==
    ( /\ Done("get_byte_range_mp")
      /\ enable_s3
      /\ ~call.transient
      /\ call.s3_end <= Len(Stored(call.bucket, call.key).val) )
    => /\ call.outcome = "returned"
       /\ call.result.kind = "uint8array"
       /\ call.result.val = PySlice(Stored(call.bucket, call.key).val,
                                    call.s3_start, call.s3_end)

\* the parallel download in call has created its shared array
ArrayCreated ==
    /\ call.op = "get_byte_range_mp"
    /\ enable_s3
    /\ call.array_name # <<>>

\* C17 (as claimed): for a range within a stored object, the chunk tasks of
\* one parallel download assign to index ranges of the shared buffer that
\* lie inside the buffer and do not overlap one another.
C17_ChunkWritesDisjointInBuffer ==
    (ArrayCreated /\ call.s3_end <= call.s3_max_size) =>
        /\ \A b \in DOMAIN call.work :
              /\ 0 <= call.work[b].start
              /\ call.work[b].start <= call.work[b].end
              /\ call.work[b].end <= Len(call.shared_array)
        /\ \A b1 \in DOMAIN call.work, b2 \in DOMAIN call.work :
              b1 # b2 => \/ call.work[b1].end <= call.work[b2].start
                         \/ call.work[b2].end <= call.work[b1].start

\* C20: in a parallel download the named buffer has the length end - start
\* from its creation on; it exists by name under that length as long as the
\* map runs, and no task's attach has found the name gone; its name is gone
\* only when the call has ended with every task finished; and it is gone
\* when a successful call returns.
C20_StagingBufferLifetime ==
    ArrayCreated =>
        /\ Len(call.shared_array) = call.s3_end - call.s3_start
        /\ call.pc = "map" =>
              /\ call.array_name \in DOMAIN shm
              /\ shm[call.array_name] = call.s3_end - call.s3_start
        /\ ~call.attach_failed
        /\ call.array_name \notin DOMAIN shm =>
              /\ call.pc = "done"
              /\ \A b \in DOMAIN call.task : call.task[b] = "done"
        /\ (call.pc = "done" /\ call.outcome = "returned") =>
              call.array_name \notin DOMAIN shm

\* C20 witness: a download of two or more chunks has returned and its
\* buffer is gone
C20_Witness ==
    /\ ArrayCreated
    /\ call.pc = "done"
    /\ call.outcome = "returned"
    /\ Cardinality(DOMAIN call.work) >= 2
    /\ call.array_name \notin DOMAIN shm

\* C25 (as claimed): get_byte_range_mp never returns normally a buffer in
\* which the slice of some chunk was not filled by a successful ranged GET:
\* a chunk task that failed makes the call fail, and every byte of a
\* returned buffer lies in the range a finished task has fetched and
\* assigned.
C25_NoPartlyFilledResult ==
    ( /\ call.op = "get_byte_range_mp"
      /\ enable_s3
      /\ call.pc = "done" )
    => /\ (\E b \in DOMAIN call.task : call.task[b] = "failed")
             => call.outcome = "raised"
       /\ call.outcome = "returned" =>
             \A i \in 1..Len(call.result.val) :
                \E b \in DOMAIN call.work :
                   /\ call.task[b] = "done"
                   /\ call.work[b].start < i
                   /\ i <= call.work[b].end

\* C26 (as claimed): asked for a range whose end exceeds the object's
\* length, get_byte_range_mp (no transient failure hitting it) succeeds and
\* returns the bytes from s3_start to the object's end, object length -
\* s3_start of them, and no task issues a ranged GET that starts beyond its
\* end.
C26_EndBeyondObjectIsClipped ==
    LET obj == s3_objects[<<TheBucket, DownloadKey>>].val
    IN  ( /\ call.op = "get_byte_range_mp"
          /\ enable_s3
          /\ call.pc = "done"
          /\ ~call.transient
          /\ call.s3_end > Len(obj)
          /\ call.s3_start <= Len(obj) )
        => /\ call.outcome = "returned"
           /\ call.result.kind = "uint8array"
           /\ Len(call.result.val) = Len(obj) - call.s3_start
           /\ call.result.val = PySlice(obj, call.s3_start, Len(obj))
           /\ \A b \in DOMAIN call.work : call.work[b].start <= call.work[b].end

\* C27 (as claimed): when get_byte_range_mp ends, with its data or with the
\* failure of a chunk task, the shared array it created has been deleted.
C27_StagingBufferDeletedAtEnd ==
    ( /\ call.op = "get_byte_range_mp"
      /\ call.pc = "done"
      /\ call.array_name # <<>> )
    => call.array_name \notin DOMAIN shm

-----------------------------------------------------------------------------
(* Claims on the shared arrays of the host, under SpecShm *)

\* C28 (as claimed): every array the parallel downloader creates has a name
\* that list_created_arrays reports (it starts with 'S3' or 'DCCORE' and is
\* listed in /dev/shm), and delete_created_arrays removes every array
\* reported: when it is over no array of the downloader is alive.
C28_DeleteCreatedArraysRemovesAll ==
    /\ \A n \in DownloaderArrays(shm) :
          /\ StartsWith(n, "S3") \/ StartsWith(n, "DCCORE")
          /\ n \in ListCreatedArrays(shm)
    /\ Done("delete_created_arrays") =>
          /\ call.outcome = "returned"
          /\ ListCreatedArrays(shm) = {}
          /\ DownloaderArrays(shm) = {}

\* C29 (as claimed): while a chunk task of a download has still to attach
\* to the shared array and write into it, no delete_created_arrays has
\* deleted that array.
C29_BufferLiveWhileTasksPending ==
    ( /\ call.op = "get_byte_range_mp"
      /\ call.pc = "map"
      /\ \E b \in DOMAIN call.task : call.task[b] = "pending" )
    => call.array_name \in DOMAIN shm

-----------------------------------------------------------------------------
(* datacube/analytics/base_job_monitor.py: BaseJobMonitor *)

\* most subjobs in decomposed['jobs']
MaxJobs == 2
\* longest walltime, in seconds
MaxWalltime == 1

\* the clock counts half seconds: wait_for_workers sleeps 0.5 s
TicksPerSecond == 2

\* the clock's last value, later than the end of every walltime
MaxTime == TicksPerSecond * MaxWalltime + 2

JobIds == 1..MaxJobs

\* the members of JobStatuses the monitor names; a subjob that is not
\* COMPLETED has one of the others
JobStatuses == {"COMPLETED", "WALLTIME_EXCEEDED", "ERRORED"}

\* a member of JobStatuses as a value
Status(s) == [kind |-> "JobStatuses", val |-> s]

\* the store has no job of that id
NoSuchJob == "no such job"

\* store.get_job_status(job_id): the job's status; ValueError for an id the
\* store does not know
GetJobStatus(st, job_id) ==
    IF st[job_id] = NoSuchJob
    THEN [ok |-> FALSE, status |-> "none", error |-> "ValueError"]
    ELSE [ok |-> TRUE, status |-> st[job_id], error |-> "none"]

\* _walltime_to_sec of the walltime 'h:m:s', here the triple <<h, m, s>>
WalltimeToSec(walltime) == walltime[1] * 3600 + walltime[2] * 60 + walltime[3]

Walltimes == {<<0, 0, sec>> : sec \in 0..MaxWalltime}

\* decomposed['jobs'] of a job decomposed in n subjobs
DecomposedJobs(n) == [i \in 1..n |-> [id |-> i]]

\* __init__: the monitor made at time `monotonic`; kill_subjobs is the
\* caller's callback or, with None, the method of the class
BaseJobMonitor(jobs, walltime, kill_subjobs, monotonic) ==
    [pc |-> "idle", jobs |-> jobs, subjob_tasks |-> "subjob_tasks",
     kill_subjobs |-> IF kill_subjobs = "None" THEN "BaseJobMonitor.kill_subjobs"
                      ELSE kill_subjobs,
     walltime_in_secs |-> WalltimeToSec(walltime), start_time |-> monotonic,
     jobs_completed |-> FALSE, walltime_exceeded |-> FALSE, all_statuses |-> <<>>,
     kill_calls |-> <<>>, outcome |-> "none", result |-> NoneVal]

\* the loop body's lookups: the statuses of the jobs whose lookup did not
\* raise ValueError, in the order of the jobs
RECURSIVE AllStatuses(_, _)
AllStatuses(st, jobs) ==
    IF jobs = <<>> THEN <<>>
    ELSE LET r == GetJobStatus(st, Head(jobs).id)
         IN  (IF r.ok THEN <<r.status>> ELSE <<>>) \o AllStatuses(st, Tail(jobs))

\* any(js != JobStatuses.COMPLETED for js in all_statuses)
AnyNotCompleted(all_statuses) ==
    \E i \in 1..Len(all_statuses) : all_statuses[i] # "COMPLETED"

MonitorRuns == monitor.pc \in {"idle", "loop", "sleep"}

\* wait_for_workers is entered
WaitForWorkersCall ==
    /\ monitor.pc = "idle"
    /\ monitor' = [monitor EXCEPT !.pc = "loop", !.jobs_completed = FALSE,
                                  !.walltime_exceeded = FALSE]
    /\ UNCHANGED <<s3io_vars, platform, store, now>>

\* One pass of the loop of wait_for_workers and, when the pass breaks, the
\* statements after the loop. Past the walltime: kill_subjobs is called (the
\* method of the class raises NotImplementedError) and WALLTIME_EXCEEDED is
\* returned. Else the statuses are looked up: the monitor sleeps when one
\* differs from COMPLETED and returns COMPLETED otherwise.
WaitForWorkersPass ==
    /\ monitor.pc = "loop"
    /\ LET elapsed_time == now - monitor.start_time
           all_statuses == AllStatuses(store, monitor.jobs)
       IN  IF elapsed_time > monitor.walltime_in_secs * TicksPerSecond
           THEN LET killing == [monitor EXCEPT
                                   !.walltime_exceeded = TRUE,
                                   !.kill_calls = Append(@, monitor.subjob_tasks),
                                   !.pc = "done"]
                IN  monitor' =
                       IF monitor.kill_subjobs = "BaseJobMonitor.kill_subjobs"
                       THEN [killing EXCEPT
                                !.outcome = "raised",
                                !.result = Error("NotImplementedError", "kill_subjobs")]
                       ELSE [killing EXCEPT
                                !.outcome = "returned",
                                !.result = Status("WALLTIME_EXCEEDED")]
           ELSE IF AnyNotCompleted(all_statuses)
           THEN monitor' = [monitor EXCEPT !.all_statuses = all_statuses,
                                           !.pc = "sleep"]
           ELSE monitor' = [monitor EXCEPT !.all_statuses = all_statuses,
                                           !.jobs_completed = TRUE,
                                           !.pc = "done",
                                           !.outcome = "returned",
                                           !.result = Status("COMPLETED")]
    /\ UNCHANGED <<s3io_vars, platform, store, now>>

\* sleep(0.5) is over: half a second has passed
Sleep ==
    /\ monitor.pc = "sleep"
    /\ monitor' = [monitor EXCEPT !.pc = "loop"]
    /\ now' = Min(now + 1, MaxTime)
    /\ UNCHANGED <<s3io_vars, platform, store>>

\* time passes while the monitor exists
Tick ==
    /\ MonitorRuns
    /\ now < MaxTime
    /\ now' = now + 1
    /\ UNCHANGED <<s3io_vars, platform, store, monitor>>

\* the workers and the store: a subjob gets a status, or its record is not
\* (yet, any more) in the store
StoreUpdate(job_id, status) ==
    /\ MonitorRuns
    /\ store[job_id] # status
    /\ store' = [store EXCEPT ![job_id] = status]
    /\ UNCHANGED <<s3io_vars, platform, now, monitor>>

\* a monitor has been made for a job of up to MaxJobs subjobs
InitMon ==
    /\ enable_s3 = FALSE
    /\ s3_objects = InitObjects
    /\ s3_uploads = <<>>
    /\ fs_dirs = InitDirs
    /\ fs_files = <<>>
    /\ shm = <<>>
    /\ call = IdleCall
    /\ last_put = <<>>
    /\ platform = "linux"
    /\ store \in [JobIds -> JobStatuses \cup {NoSuchJob}]
    /\ now = 0
    /\ \E n \in 0..MaxJobs, walltime \in Walltimes,
          kill_subjobs \in {"callback", "None"} :
          monitor = BaseJobMonitor(DecomposedJobs(n), walltime, kill_subjobs, 0)

NextMon ==
    \/ WaitForWorkersCall
    \/ WaitForWorkersPass
    \/ Sleep
    \/ Tick
    \/ \E job_id \in JobIds, status \in JobStatuses \cup {NoSuchJob} :
          StoreUpdate(job_id, status)

SpecMon == InitMon /\ [][NextMon]_vars

\* The monitor runs and the clock advances: a pass of the loop that can be
\* made is made, and a sleep ends.
SpecMonFair ==
    /\ SpecMon
    /\ WF_vars(WaitForWorkersPass)
    /\ WF_vars(Sleep)

-----------------------------------------------------------------------------
(* Claims on the job monitor, under SpecMon *)

\* C22 (as claimed): wait_for_workers returns COMPLETED only when every
\* subjob of decomposed['jobs'] has the status COMPLETED in the store, the
\* subjobs whose lookup raised ValueError included: no subjob is left out.
C22_CompletedOnlyWhenAllCompleted ==
    ( /\ monitor.pc = "done"
      /\ monitor.outcome = "returned"
      /\ monitor.result = Status("COMPLETED") )
    => \A i \in 1..Len(monitor.jobs) :
          /\ GetJobStatus(store, monitor.jobs[i].id).ok
          /\ GetJobStatus(store, monitor.jobs[i].id).status = "COMPLETED"

\* C32 (as claimed): wait_for_workers calls kill_subjobs exactly once, with
\* the subjob tasks, if and only if it returns WALLTIME_EXCEEDED; it has not
\* called it when it returns COMPLETED, nor while it waits; and it returns
\* COMPLETED or WALLTIME_EXCEEDED, never ERRORED.
C32_KillOnceIffWalltimeExceeded ==
    /\ monitor.pc \in {"idle", "loop", "sleep"} => monitor.kill_calls = <<>>
    /\ monitor.pc = "done" =>
          /\ Len(monitor.kill_calls) <= 1
          /\ (monitor.kill_calls = <<monitor.subjob_tasks>>)
                <=> ( /\ monitor.outcome = "returned"
                      /\ monitor.result = Status("WALLTIME_EXCEEDED") )
          /\ (monitor.outcome = "returned" /\ monitor.result = Status("COMPLETED"))
                => monitor.kill_calls = <<>>
          /\ monitor.outcome = "returned"
                => /\ monitor.result \in {Status("COMPLETED"), Status("WALLTIME_EXCEEDED")}
                   /\ monitor.result # Status("ERRORED")

\* C33 (as claimed): with the clock advancing, wait_for_workers, once
\* entered, eventually returns a status, whatever the statuses of the
\* subjobs do: COMPLETED, or WALLTIME_EXCEEDED once the elapsed time exceeds
\* the walltime.
C33_WaitForWorkersReturns ==
    (monitor.pc = "loop")
        ~> ( /\ monitor.pc = "done"
             /\ monitor.outcome = "returned"
             /\ monitor.result \in {Status("COMPLETED"), Status("WALLTIME_EXCEEDED")} )

====
